---- MODULE Spec2Model ----
(***************************************************************************)
(* The client-side authentication module of CLARAI (AuthProvider in        *)
(* src/unnamed/part_000): accounts, session pointer and password-reset     *)
(* tokens kept in localStorage, the in-memory user / loading / error React *)
(* state, and the operations of the auth context.                          *)
(*                                                                         *)
(* Emails, passwords, one-time codes, digests and messages are strings.    *)
(* A time is a number of milliseconds (Date.now()); an ISO timestamp       *)
(* written by toISOString() and read back by new Date(..).getTime() is     *)
(* that number.                                                            *)
(*                                                                         *)
(* Each handler is an operator from the world it runs in (the three        *)
(* localStorage items and the React state it can set) to the world it      *)
(* leaves and the way its promise settles; the actions apply the handlers  *)
(* to the current state.                                                   *)
(***************************************************************************)
EXTENDS Naturals, Sequences, FiniteSets, TLC

VARIABLES
    accountsItem,   \* localStorage["clarai.auth.accounts"]
    sessionItem,    \* localStorage["clarai.auth.session"]
    resetItem,      \* localStorage["clarai.auth.resetTokens"]
    user,           \* useState<AuthUser | null>
    loading,        \* useState(true)
    error,          \* useState<string | null>
    now,            \* Date.now()
    call,           \* the operation whose promise settled most recently
    reply,          \* how that call's promise settled
    inFlight,       \* the calls suspended at an await, in the order they were made
    made            \* how many calls of handlers that await have been made on this page

vars == <<accountsItem, sessionItem, resetItem, user, loading, error, now, call, reply,
          inFlight, made>>

(***************************************************************************)
(* Bounds of the model.                                                    *)
(***************************************************************************)
\* Instants of the clock are 0 and ResetTtlMs .. ResetTtlMs + MaxJitter.
MaxJitter == 1
\* Math.random() is drawn from {k / RandomScale : k \in RandomDraws}.
RandomScale == 1000

(***************************************************************************)
(* Input domains.                                                          *)
(***************************************************************************)
RawEmails == { "user@test.com", "USER@TEST.COM", "other@test.com" }
Passwords == { "secret1", "secret2" }
RandomDraws == { 0, RandomScale - 1 }

(***************************************************************************)
(* JavaScript values.                                                      *)
(***************************************************************************)
\* A value of type T | null is None or Some(v).
None == <<>>
Some(v) == <<v>>
\* What a promise settles with, and the error state, are strings.
Null == "null"
Undefined == "undefined"
JsTrue == "true"
JsFalse == "false"

\* mutant: the email is used as typed
toLowerCase_AsTyped(s) == s

\* String.prototype.toLowerCase on the emails of the model: the one email
\* with capitals is folded, the others have none.
toLowerCase(s) == IF s = "USER@TEST.COM" THEN "user@test.com" ELSE s

\* !email, for email: string | null : null and the empty string are falsy
Falsy(email) == email = None \/ email = Some("")

DigitChar == <<"0", "1", "2", "3", "4", "5", "6", "7", "8", "9">>

RECURSIVE toString(_)
toString(n) == IF n < 10 THEN DigitChar[n + 1]
               ELSE toString(n \div 10) \o DigitChar[(n % 10) + 1]

\* crypto.subtle.digest("SHA-256", ..) rendered in hex: a fixed function of the
\* value alone, distinct values having distinct digests.
hashString(value) == "sha256(" \o value \o ")"

\* Math.floor(100000 + Math.random() * 900000), Math.random() = k / RandomScale
otpNumber(k) == 100000 + ((k * 900000) \div RandomScale)

\* mutant: Math.floor(Math.random() * 1000000), which has fewer digits for small draws
generateOtp_FromZero(k) == toString((k * 1000000) \div RandomScale)

\* Math.floor(100000 + Math.random() * 900000).toString()
generateOtp(k) == toString(otpNumber(k))

Codes == { generateOtp(k) : k \in RandomDraws }

ResetTtlMs == 10 * 60 * 1000

Instants == {0} \cup (ResetTtlMs .. (ResetTtlMs + MaxJitter))

(***************************************************************************)
(* Messages of the failures (the spec's error kinds).                      *)
(***************************************************************************)
DuplicateAccount == "An account with this email already exists. Try signing in."
SignInAccountNotFound == "Account not found. Please sign up first."
InvalidCredential == "Incorrect password. Please try again."
ResetAccountNotFound == "We couldn't find an account with that email."
ResetNotFound == "No reset request found for this email. Please request a new code."
ResetExpired == "The OTP has expired. Please request a new code."
InvalidCode == "Invalid OTP. Double-check the code and try again."
VerifyAccountNotFound == "Account not found."

(***************************************************************************)
(* The persistent record store.  A world w is the record of the three      *)
(* localStorage items and of the user and error state.                     *)
(***************************************************************************)
Missing == [kind |-> "missing"]
Json(v) == [kind |-> "json", value |-> v]
Unparsable == [kind |-> "unparsable"]
\* JSON.parse succeeds with a value that is not an array
NotArray == [kind |-> "notArray"]
\* a null among the entries of a stored array: the cast to StoredAccount[] or
\* PasswordResetToken[] checks nothing
NullEntry == [isNull |-> TRUE, email |-> "undefined"]
\* the message of the TypeError that reading .email of null throws
TypeErrorMessage == "Cannot read properties of null (reading 'email')"

World == [accountsItem |-> accountsItem, sessionItem |-> sessionItem,
          resetItem |-> resetItem, user |-> user, error |-> error]

getAccounts(w) == IF w.accountsItem.kind = "json" THEN w.accountsItem.value ELSE <<>>

persistAccounts(w, accounts) == [w EXCEPT !.accountsItem = Json(accounts)]

\* mutant: a null email leaves the stored pointer in place
persistSession_KeepsOnNull(w, email) ==
    IF Falsy(email) THEN w ELSE [w EXCEPT !.sessionItem = email]

\* mutant: the write to localStorage is lost
persistSession_Ignored(w, email) == w

persistSession(w, email) ==
    [w EXCEPT !.sessionItem = IF Falsy(email) THEN None ELSE email]

getSession(w) == w.sessionItem

getResetTokens(w) == IF w.resetItem.kind = "json" THEN w.resetItem.value ELSE <<>>

persistResetTokens(w, tokens) == [w EXCEPT !.resetItem = Json(tokens)]

setUser(w, value) == [w EXCEPT !.user = value]

setError(w, value) == [w EXCEPT !.error = value]

(***************************************************************************)
(* Array helpers and the tests the handlers make.                          *)
(***************************************************************************)
\* find, findIndex and some call item.email on each entry up to the first match:
\* they throw when a null entry comes before it
FindThrows(items, email) ==
    LET RECURSIVE From(_)
        From(i) == IF i > Len(items) THEN FALSE
                   ELSE IF items[i] = NullEntry THEN TRUE
                   ELSE IF items[i].email = email THEN FALSE
                   ELSE From(i + 1)
    IN From(1)

\* filter calls item.email on every entry: it throws when any is null
FilterThrows(items) == \E i \in DOMAIN items : items[i] = NullEntry

\* Array.prototype.findIndex on the email field; 0 stands for -1 (find: undefined)
FindIndex(items, email) ==
    LET RECURSIVE From(_)
        From(i) == IF i > Len(items) THEN 0
                   ELSE IF items[i].email = email THEN i
                   ELSE From(i + 1)
    IN From(1)

\* mutant: the filter removes nothing
WithoutEmail_KeepsAll(items, email) == items

\* mutant: === for !==, the filter keeps the email's own tokens
WithoutEmail_Inverted(items, email) == SelectSeq(items, LAMBDA item : item.email = email)

\* mutant: the filter keeps nothing, the other emails' tokens are lost
WithoutEmail_DropsAll(items, email) == <<>>

\* items.filter((item) => item.email !== email)
WithoutEmail(items, email) == SelectSeq(items, LAMBDA item : item.email # email)

\* mutant: the account record itself is compared with the email, never equal
EmailTaken_Never(accounts, normalizedEmail) == FALSE

\* accounts.some((account) => account.email === normalizedEmail)
EmailTaken(accounts, normalizedEmail) ==
    \E i \in DOMAIN accounts : accounts[i].email = normalizedEmail

\* mutant: the stored hash is compared with the password, not with its hash
PasswordMatches_Plaintext(existing, password) == existing.passwordHash = password

\* existing.passwordHash !== hash, negated
PasswordMatches(existing, password) == existing.passwordHash = hashString(password)

\* mutant: <= for <, the token is expired at its expiry instant already
TokenExpired_AtExpiry(token, t) == token.expiresAt <= t

\* mutant: the expiry is never checked
TokenExpired_Never(token, t) == FALSE

\* new Date(token.expiresAt).getTime() < Date.now()
TokenExpired(token, t) == token.expiresAt < t

\* mutant: any code is accepted
CodeMatches_Always(token, otp) == TRUE

\* providedHash !== token.otpHash, negated
CodeMatches(token, otp) == hashString(otp) = token.otpHash

\* mutant: the new password is stored without being hashed
WithPassword_Plaintext(accounts, existingIndex, newPassword) ==
    [accounts EXCEPT ![existingIndex].passwordHash = newPassword]

\* mutant: the new hash is written to every account
WithPassword_AllAccounts(accounts, existingIndex, newPassword) ==
    [i \in DOMAIN accounts |-> [accounts[i] EXCEPT !.passwordHash = hashString(newPassword)]]

\* updatedAccounts: a copy with the password hash at existingIndex replaced
WithPassword(accounts, existingIndex, newPassword) ==
    [accounts EXCEPT ![existingIndex].passwordHash = hashString(newPassword)]

UserOf(account) == Some([email |-> account.email, createdAt |-> account.createdAt])

\* accounts.find in loadAccountForEmail throws
loadAccountThrows(w, email) ==
    /\ ~Falsy(email)
    /\ FindThrows(getAccounts(w), toLowerCase(email[1]))

\* the index in getAccounts(w) of the account found, 0 for null
loadAccountForEmail(w, email) ==
    IF Falsy(email) THEN 0
    ELSE FindIndex(getAccounts(w), toLowerCase(email[1]))

(***************************************************************************)
(* runAuthAction: a handler runs in the world with the error cleared; it   *)
(* returns a value, or throws a message that is set as the error and       *)
(* thrown on to the caller.                                                *)
(***************************************************************************)
Resolved(value) == [status |-> "resolved", value |-> value]
Rejected(message) == [status |-> "rejected", value |-> message]

\* mutant: a handler that returns leaves a message in the error state
Return_SetsError(w, value) ==
    [world |-> setError(w, "Done."), reply |-> Resolved(value)]

Return(w, value) == [world |-> w, reply |-> Resolved(value)]

\* mutant: the catch block rethrows without setError
Throw_ErrorNotSet(w, message) == [world |-> w, reply |-> Rejected(message)]

Throw(w, message) == [world |-> setError(w, message), reply |-> Rejected(message)]

(***************************************************************************)
(* The handlers.  w is the world at the call, t the time Date reads.       *)
(***************************************************************************)
\* mutant: the startup resolution forgets the remembered session
initialiseSession_Forgets(w) == setUser(persistSession(w, None), None)

initialiseSession(w) ==
    LET account == loadAccountForEmail(w, getSession(w))
    IN IF account # 0
       THEN setUser(w, UserOf(getAccounts(w)[account]))
       ELSE setUser(persistSession(w, None), None)

signUp(w, t, email, password) ==
    LET w0 == setError(w, Null)
        normalizedEmail == toLowerCase(email)
        accounts == getAccounts(w0)
        newAccount == [email |-> normalizedEmail,
                       passwordHash |-> hashString(password),
                       createdAt |-> t]
        w1 == persistAccounts(w0, Append(accounts, newAccount))
        w2 == setUser(w1, UserOf(newAccount))
        w3 == persistSession(w2, Some(newAccount.email))
    IN IF FindThrows(accounts, normalizedEmail)
       THEN Throw(w0, TypeErrorMessage)
       ELSE IF EmailTaken(accounts, normalizedEmail)
       THEN Throw(w0, DuplicateAccount)
       ELSE Return(w3, Undefined)

signIn(w, email, password) ==
    LET w0 == setError(w, Null)
        accounts == getAccounts(w0)
        normalizedEmail == toLowerCase(email)
        existing == FindIndex(accounts, normalizedEmail)
        w1 == setUser(w0, UserOf(accounts[existing]))
        w2 == persistSession(w1, Some(accounts[existing].email))
    IN IF FindThrows(accounts, normalizedEmail)
       THEN Throw(w0, TypeErrorMessage)
       ELSE IF existing = 0
       THEN Throw(w0, SignInAccountNotFound)
       ELSE IF ~PasswordMatches(accounts[existing], password)
       THEN Throw(w0, InvalidCredential)
       ELSE Return(w2, Undefined)

\* mutant: the user is cleared, the stored pointer is not
signOut_KeepsPointer(w) == Return(setUser(setError(w, Null), None), Undefined)

signOut(w) ==
    LET w0 == setError(w, Null)
        w1 == persistSession(w0, None)
        w2 == setUser(w1, None)
    IN Return(w2, Undefined)

\* random / RandomScale is the value Math.random() returns
requestPasswordReset(w, t, email, random) ==
    LET w0 == setError(w, Null)
        normalizedEmail == toLowerCase(email)
        accounts == getAccounts(w0)
        existing == FindIndex(accounts, normalizedEmail)
        otp == generateOtp(random)
        otpHash == hashString(otp)
        expiresAt == t + ResetTtlMs
        tokens == Append(WithoutEmail(getResetTokens(w0), normalizedEmail),
                         [email |-> normalizedEmail, otpHash |-> otpHash, expiresAt |-> expiresAt])
        w1 == persistResetTokens(w0, tokens)
    IN IF FindThrows(accounts, normalizedEmail)
       THEN Throw(w0, TypeErrorMessage)
       ELSE IF existing = 0
       THEN Throw(w0, ResetAccountNotFound)
       ELSE IF FilterThrows(getResetTokens(w0))
       THEN Throw(w0, TypeErrorMessage)
       ELSE Return(w1, otp)

verifyPasswordReset(w, t, email, otp, newPassword) ==
    LET w0 == setError(w, Null)
        normalizedEmail == toLowerCase(email)
        tokens == getResetTokens(w0)
        token == FindIndex(tokens, normalizedEmail)
        accounts == getAccounts(w0)
        existingIndex == FindIndex(accounts, normalizedEmail)
        updatedAccounts == WithPassword(accounts, existingIndex, newPassword)
        w1 == persistAccounts(w0, updatedAccounts)
        w2 == persistResetTokens(w1, WithoutEmail(tokens, normalizedEmail))
        w3 == setUser(w2, UserOf(updatedAccounts[existingIndex]))
        w4 == persistSession(w3, Some(updatedAccounts[existingIndex].email))
    IN IF FindThrows(tokens, normalizedEmail)
       THEN Throw(w0, TypeErrorMessage)
       ELSE IF token = 0
       THEN Throw(w0, ResetNotFound)
       ELSE IF TokenExpired(tokens[token], t)
       THEN IF FilterThrows(tokens)
            THEN Throw(w0, TypeErrorMessage)
            ELSE Throw(persistResetTokens(w0, WithoutEmail(tokens, normalizedEmail)), ResetExpired)
       ELSE IF ~CodeMatches(tokens[token], otp)
       THEN Throw(w0, InvalidCode)
       ELSE IF FindThrows(accounts, normalizedEmail)
       THEN Throw(w0, TypeErrorMessage)
       ELSE IF existingIndex = 0
       THEN Throw(w0, VerifyAccountNotFound)
       ELSE IF FilterThrows(tokens)
       THEN Throw(w1, TypeErrorMessage)
       ELSE Return(w4, Undefined)

\* mutant: a stored pointer is taken as a session without looking the account up
refreshSession_TrustsPointer(w) ==
    IF getSession(w) # None
    THEN Return(setError(w, Null), JsTrue)
    ELSE Return(setUser(persistSession(setError(w, Null), None), None), JsFalse)

refreshSession(w) ==
    LET w0 == setError(w, Null)
        account == loadAccountForEmail(w0, getSession(w0))
    IN IF loadAccountThrows(w0, getSession(w0))
       THEN Throw(w0, TypeErrorMessage)
       ELSE IF account # 0
       THEN Return(setUser(w0, UserOf(getAccounts(w0)[account])), JsTrue)
       ELSE Return(setUser(persistSession(w0, None), None), JsFalse)

\* clearError: () => setError(null); it does not go through runAuthAction
clearError(w) == setError(w, Null)

(***************************************************************************)
(* The state machine.                                                      *)
(***************************************************************************)
Init ==
    /\ accountsItem = Missing
    /\ sessionItem = None
    /\ resetItem = Missing
    /\ user = None
    /\ loading = TRUE
    /\ error = Null
    /\ now = 0
    /\ call = "none"
    /\ reply = Resolved(Undefined)
    /\ inFlight = <<>>
    /\ made = 0

Becomes(w) ==
    /\ accountsItem' = w.accountsItem
    /\ sessionItem' = w.sessionItem
    /\ resetItem' = w.resetItem
    /\ user' = w.user
    /\ error' = w.error

\* mutant: a call puts the provider back into loading
Completes_SetsLoading(op, result) ==
    /\ loading = FALSE
    /\ Becomes(result.world)
    /\ call' = op
    /\ reply' = result.reply
    /\ loading' = TRUE
    /\ UNCHANGED <<now, inFlight, made>>

\* A call on the context value runs to completion.  The forms that make the
\* calls are rendered once loading is false.
Completes(op, result) ==
    /\ loading = FALSE
    /\ Becomes(result.world)
    /\ call' = op
    /\ reply' = result.reply
    /\ UNCHANGED <<loading, now, inFlight, made>>

\* useEffect(() => { initialiseSession(); }, [])
Mount ==
    /\ loading = TRUE
    /\ ~loadAccountThrows(World, getSession(World))
    /\ Becomes(initialiseSession(World))
    /\ loading' = FALSE
    /\ UNCHANGED <<now, call, reply, inFlight, made>>

\* initialiseSession throws inside the effect: nothing catches it, setLoading(false)
\* is not reached and the provider never leaves loading.
MountThrows ==
    /\ loading = TRUE
    /\ loadAccountThrows(World, getSession(World))
    /\ call' = "initialiseSession"
    /\ reply' = Rejected(TypeErrorMessage)
    /\ UNCHANGED <<accountsItem, sessionItem, resetItem, user, loading, error, now, inFlight,
                 made>>

\* The page is loaded again: the React state is new, localStorage is kept, and
\* the calls of the old page are gone with it.
Reload ==
    /\ loading = FALSE
    /\ user' = None
    /\ loading' = TRUE
    /\ error' = Null
    /\ call' = "none"
    /\ reply' = Resolved(Undefined)
    /\ inFlight' = <<>>
    /\ made' = 0
    /\ UNCHANGED <<accountsItem, sessionItem, resetItem, now>>

Tick(t) ==
    /\ t > now
    /\ now' = t
    /\ UNCHANGED <<accountsItem, sessionItem, resetItem, user, loading, error, call, reply,
                 inFlight, made>>

CallSignUp(email, password) == Completes("signUp", signUp(World, now, email, password))

CallSignIn(email, password) == Completes("signIn", signIn(World, email, password))

CallSignOut == Completes("signOut", signOut(World))

CallRequestPasswordReset(email, random) ==
    Completes("requestPasswordReset", requestPasswordReset(World, now, email, random))

CallVerifyPasswordReset(email, otp, newPassword) ==
    Completes("verifyPasswordReset", verifyPasswordReset(World, now, email, otp, newPassword))

CallRefreshSession == Completes("refreshSession", refreshSession(World))

CallClearError ==
    /\ loading = FALSE
    /\ Becomes(clearError(World))
    /\ UNCHANGED <<loading, now, call, reply, inFlight, made>>

\* The stored accounts value is replaced by text JSON.parse rejects.
AccountsCorrupted ==
    /\ accountsItem.kind = "json"
    /\ accountsItem' = Unparsable
    /\ UNCHANGED <<sessionItem, resetItem, user, loading, error, now, call, reply, inFlight,
                 made>>

Next ==
    \/ Mount
    \/ Reload
    \/ \E t \in Instants : Tick(t)
    \/ \E email \in RawEmails, password \in Passwords : CallSignUp(email, password)
    \/ \E email \in RawEmails, password \in Passwords : CallSignIn(email, password)
    \/ CallSignOut
    \/ \E email \in RawEmails, random \in RandomDraws : CallRequestPasswordReset(email, random)
    \/ \E email \in RawEmails, otp \in Codes, newPassword \in Passwords :
          CallVerifyPasswordReset(email, otp, newPassword)
    \/ CallRefreshSession
    \/ CallClearError

Spec == Init /\ [][Next]_vars

\* The same, in an environment that can damage the stored accounts.
NextEnv == Next \/ AccountsCorrupted

SpecEnv == Init /\ [][NextEnv]_vars

\* The stored accounts or reset tokens are replaced by damaged text: text that
\* JSON.parse rejects, JSON that is not an array, an array whose only entry is
\* null, or the array as it is with a null entry added.
Damaged(item) ==
    { Unparsable, NotArray, Json(<<NullEntry>>) }
        \cup (IF item.kind = "json" /\ ~FilterThrows(item.value)
              THEN { Json(Append(item.value, NullEntry)) } ELSE {})

AccountsDamaged ==
    /\ \E damaged \in Damaged(accountsItem) : accountsItem' = damaged
    /\ accountsItem' # accountsItem
    /\ UNCHANGED <<sessionItem, resetItem, user, loading, error, now, call, reply, inFlight,
                 made>>

ResetTokensDamaged ==
    /\ \E damaged \in Damaged(resetItem) : resetItem' = damaged
    /\ resetItem' # resetItem
    /\ UNCHANGED <<accountsItem, sessionItem, user, loading, error, now, call, reply, inFlight,
                 made>>

\* The provider over a store that can be damaged at any time; the clock stands.
NextDamage ==
    \/ Mount
    \/ MountThrows
    \/ Reload
    \/ \E email \in RawEmails, password \in Passwords : CallSignUp(email, password)
    \/ \E email \in RawEmails, password \in Passwords : CallSignIn(email, password)
    \/ CallSignOut
    \/ \E email \in RawEmails, random \in RandomDraws : CallRequestPasswordReset(email, random)
    \/ \E email \in RawEmails, otp \in Codes, newPassword \in Passwords :
          CallVerifyPasswordReset(email, otp, newPassword)
    \/ CallRefreshSession
    \/ CallClearError
    \/ AccountsDamaged
    \/ ResetTokensDamaged

SpecDamage == Init /\ [][NextDamage]_vars

\* One run of the provider, from its first render on, with no reload.  The
\* effect that calls initialiseSession runs after the first render.
NextOneRun ==
    \/ Mount
    \/ \E t \in Instants : Tick(t)
    \/ \E email \in RawEmails, password \in Passwords : CallSignUp(email, password)
    \/ \E email \in RawEmails, password \in Passwords : CallSignIn(email, password)
    \/ CallSignOut
    \/ \E email \in RawEmails, random \in RandomDraws : CallRequestPasswordReset(email, random)
    \/ \E email \in RawEmails, otp \in Codes, newPassword \in Passwords :
          CallVerifyPasswordReset(email, otp, newPassword)
    \/ CallRefreshSession
    \/ CallClearError

SpecOneRun == Init /\ [][NextOneRun]_vars /\ WF_vars(Mount)

(***************************************************************************)
(* Overlapping calls.  A handler is an async function: it runs without     *)
(* interruption up to an await of hashString, is suspended there with its  *)
(* local variables, and runs on from there when the digest is ready.       *)
(* Other calls can be made, and other suspended calls can run on, in       *)
(* between.  signOut, refreshSession and clearError have no await.         *)
(***************************************************************************)
\* Calls that can be suspended at the same time.
MaxInFlight == 2
\* Calls of handlers that await that are made in one run.
MaxMade == 4

Pending == [status |-> "pending", value |-> Undefined]

\* The handler reaches an await: frame holds the locals it goes on with.
Await(w, frame) == [world |-> w, reply |-> Pending, frame |-> frame]

\* signIn up to: const hash = await hashString(password)
signIn_Start(w, email, password) ==
    LET w0 == setError(w, Null)
        accounts == getAccounts(w0)
        normalizedEmail == toLowerCase(email)
        existing == FindIndex(accounts, normalizedEmail)
    IN IF FindThrows(accounts, normalizedEmail)
       THEN Throw(w0, TypeErrorMessage)
       ELSE IF existing = 0
       THEN Throw(w0, SignInAccountNotFound)
       ELSE Await(w0, [op |-> "signIn", existing |-> accounts[existing],
                       password |-> password])

\* signIn from the digest on: existing is the account read before the await
signIn_AfterHash(w, frame) ==
    LET w1 == setUser(w, UserOf(frame.existing))
        w2 == persistSession(w1, Some(frame.existing.email))
    IN IF ~PasswordMatches(frame.existing, frame.password)
       THEN Throw(w, InvalidCredential)
       ELSE Return(w2, Undefined)

\* signUp up to: const passwordHash = await hashString(password)
signUp_Start(w, email, password) ==
    LET w0 == setError(w, Null)
        normalizedEmail == toLowerCase(email)
        accounts == getAccounts(w0)
    IN IF FindThrows(accounts, normalizedEmail)
       THEN Throw(w0, TypeErrorMessage)
       ELSE IF EmailTaken(accounts, normalizedEmail)
       THEN Throw(w0, DuplicateAccount)
       ELSE Await(w0, [op |-> "signUp", normalizedEmail |-> normalizedEmail,
                       accounts |-> accounts, password |-> password])

\* signUp from the digest on: accounts is the array read before the await
signUp_AfterHash(w, t, frame) ==
    LET newAccount == [email |-> frame.normalizedEmail,
                       passwordHash |-> hashString(frame.password),
                       createdAt |-> t]
        w1 == persistAccounts(w, Append(frame.accounts, newAccount))
        w2 == setUser(w1, UserOf(newAccount))
        w3 == persistSession(w2, Some(newAccount.email))
    IN Return(w3, Undefined)

\* requestPasswordReset up to: const otpHash = await hashString(otp)
requestPasswordReset_Start(w, email, random) ==
    LET w0 == setError(w, Null)
        normalizedEmail == toLowerCase(email)
        accounts == getAccounts(w0)
        existing == FindIndex(accounts, normalizedEmail)
    IN IF FindThrows(accounts, normalizedEmail)
       THEN Throw(w0, TypeErrorMessage)
       ELSE IF existing = 0
       THEN Throw(w0, ResetAccountNotFound)
       ELSE Await(w0, [op |-> "requestPasswordReset", normalizedEmail |-> normalizedEmail,
                       otp |-> generateOtp(random)])

\* requestPasswordReset from the digest on: the tokens are read here
requestPasswordReset_AfterHash(w, t, frame) ==
    LET otpHash == hashString(frame.otp)
        expiresAt == t + ResetTtlMs
        tokens == Append(WithoutEmail(getResetTokens(w), frame.normalizedEmail),
                         [email |-> frame.normalizedEmail, otpHash |-> otpHash,
                          expiresAt |-> expiresAt])
    IN IF FilterThrows(getResetTokens(w))
       THEN Throw(w, TypeErrorMessage)
       ELSE Return(persistResetTokens(w, tokens), frame.otp)

\* verifyPasswordReset up to: const providedHash = await hashString(otp)
verifyPasswordReset_Start(w, t, email, otp, newPassword) ==
    LET w0 == setError(w, Null)
        normalizedEmail == toLowerCase(email)
        tokens == getResetTokens(w0)
        token == FindIndex(tokens, normalizedEmail)
    IN IF FindThrows(tokens, normalizedEmail)
       THEN Throw(w0, TypeErrorMessage)
       ELSE IF token = 0
       THEN Throw(w0, ResetNotFound)
       ELSE IF TokenExpired(tokens[token], t)
       THEN IF FilterThrows(tokens)
            THEN Throw(w0, TypeErrorMessage)
            ELSE Throw(persistResetTokens(w0, WithoutEmail(tokens, normalizedEmail)), ResetExpired)
       ELSE Await(w0, [op |-> "verifyPasswordReset", awaits |-> "otpHash",
                       normalizedEmail |-> normalizedEmail, tokens |-> tokens,
                       token |-> tokens[token], otp |-> otp, newPassword |-> newPassword])

\* verifyPasswordReset from the digest of the code up to the await of
\* hashString(newPassword): token is the one read before the first await, the
\* accounts are read here and copied into updatedAccounts
verifyPasswordReset_AfterOtpHash(w, frame) ==
    LET accounts == getAccounts(w)
        existingIndex == FindIndex(accounts, frame.normalizedEmail)
    IN IF ~CodeMatches(frame.token, frame.otp)
       THEN Throw(w, InvalidCode)
       ELSE IF FindThrows(accounts, frame.normalizedEmail)
       THEN Throw(w, TypeErrorMessage)
       ELSE IF existingIndex = 0
       THEN Throw(w, VerifyAccountNotFound)
       ELSE Await(w, [op |-> "verifyPasswordReset", awaits |-> "passwordHash",
                      normalizedEmail |-> frame.normalizedEmail, tokens |-> frame.tokens,
                      newPassword |-> frame.newPassword,
                      updatedAccounts |-> accounts, existingIndex |-> existingIndex])

\* verifyPasswordReset from the digest of the new password on: updatedAccounts
\* and tokens are the arrays read before the awaits
verifyPasswordReset_AfterPasswordHash(w, frame) ==
    LET updatedAccounts == WithPassword(frame.updatedAccounts, frame.existingIndex,
                                        frame.newPassword)
        w1 == persistAccounts(w, updatedAccounts)
        w2 == persistResetTokens(w1, WithoutEmail(frame.tokens, frame.normalizedEmail))
        w3 == setUser(w2, UserOf(updatedAccounts[frame.existingIndex]))
        w4 == persistSession(w3, Some(updatedAccounts[frame.existingIndex].email))
    IN IF FilterThrows(frame.tokens)
       THEN Throw(w1, TypeErrorMessage)
       ELSE Return(w4, Undefined)

\* A suspended call runs on from its await, at time t in world w.
Resume(w, t, frame) ==
    CASE frame.op = "signIn" -> signIn_AfterHash(w, frame)
      [] frame.op = "signUp" -> signUp_AfterHash(w, t, frame)
      [] frame.op = "requestPasswordReset" -> requestPasswordReset_AfterHash(w, t, frame)
      [] frame.op = "verifyPasswordReset" /\ frame.awaits = "otpHash" ->
             verifyPasswordReset_AfterOtpHash(w, frame)
      [] frame.op = "verifyPasswordReset" /\ frame.awaits = "passwordHash" ->
             verifyPasswordReset_AfterPasswordHash(w, frame)

\* The calls in flight without the i-th.
Settled(i) == SubSeq(inFlight, 1, i - 1) \o SubSeq(inFlight, i + 1, Len(inFlight))

\* A call is made and runs to its first await, or fails before it.  A failure
\* is caught by runAuthAction, which sets the error and rejects.
Starts(op, result) ==
    /\ loading = FALSE
    /\ Len(inFlight) < MaxInFlight
    /\ made < MaxMade
    /\ made' = made + 1
    /\ Becomes(result.world)
    /\ IF result.reply = Pending
       THEN /\ inFlight' = Append(inFlight, result.frame)
            /\ UNCHANGED <<call, reply>>
       ELSE /\ call' = op
            /\ reply' = result.reply
            /\ UNCHANGED inFlight
    /\ UNCHANGED <<loading, now>>

StartSignUp(email, password) == Starts("signUp", signUp_Start(World, email, password))

StartSignIn(email, password) == Starts("signIn", signIn_Start(World, email, password))

StartRequestPasswordReset(email, random) ==
    Starts("requestPasswordReset", requestPasswordReset_Start(World, email, random))

StartVerifyPasswordReset(email, otp, newPassword) ==
    Starts("verifyPasswordReset", verifyPasswordReset_Start(World, now, email, otp, newPassword))

\* The digest the i-th call in flight awaits is ready: the call runs on to its
\* next await or to its end.  The digests become ready in any order.
Continues(i) ==
    LET result == Resume(World, now, inFlight[i])
    IN /\ Becomes(result.world)
       /\ IF result.reply = Pending
          THEN /\ inFlight' = [inFlight EXCEPT ![i] = result.frame]
               /\ UNCHANGED <<call, reply>>
          ELSE /\ inFlight' = Settled(i)
               /\ call' = inFlight[i].op
               /\ reply' = result.reply
       /\ UNCHANGED <<loading, now, made>>

\* The emails typed into the forms while calls overlap.
OverlapEmails == { "user@test.com", "other@test.com" }

\* One run of the mounted provider with calls that overlap; the clock stands.
NextOverlap ==
    \/ Mount
    \/ \E email \in OverlapEmails, password \in Passwords : StartSignUp(email, password)
    \/ \E email \in OverlapEmails, password \in Passwords : StartSignIn(email, password)
    \/ CallSignOut
    \/ \E email \in OverlapEmails, random \in RandomDraws :
          StartRequestPasswordReset(email, random)
    \/ \E email \in OverlapEmails, otp \in Codes, newPassword \in Passwords :
          StartVerifyPasswordReset(email, otp, newPassword)
    \/ CallRefreshSession
    \/ CallClearError
    \/ \E i \in DOMAIN inFlight : Continues(i)

SpecOverlap == Init /\ [][NextOverlap]_vars

(***************************************************************************)
(* Vocabulary of the properties.                                           *)
(***************************************************************************)
\* Two emails that differ at most in letter case.
SameEmail(e1, e2) == e1 = e2 \/ {e1, e2} = {"user@test.com", "USER@TEST.COM"}

AccountsOf(w, email) ==
    { i \in DOMAIN getAccounts(w) : SameEmail(getAccounts(w)[i].email, email) }

TokensOf(w, email) ==
    { k \in DOMAIN getResetTokens(w) : SameEmail(getResetTokens(w)[k].email, email) }

Ok == Resolved(Undefined)

\* The provider has mounted: calls are made in these states.
Ready == loading = FALSE

\* The instants a later call can be made at.
From(t) == { t2 \in Instants : t2 >= t }

(***************************************************************************)
(* C1  Uniqueness.  In every reachable state no two accounts of the store  *)
(* have the same lowercased email, and a signUp whose lowercased email is  *)
(* that of an existing account fails with DuplicateAccount and leaves the  *)
(* accounts collection unchanged.                                          *)
(***************************************************************************)
C1_UniqueEmails ==
    \A i, j \in DOMAIN getAccounts(World) :
        SameEmail(getAccounts(World)[i].email, getAccounts(World)[j].email) => i = j

C1_Uniqueness ==
    /\ C1_UniqueEmails
    /\ Ready => \A email \in RawEmails, password \in Passwords :
          AccountsOf(World, email) # {} =>
              LET r == signUp(World, now, email, password)
              IN /\ r.reply = Rejected(DuplicateAccount)
                 /\ r.world.accountsItem = accountsItem

\* a signUp has just failed with DuplicateAccount while two accounts exist
C1_Witness ==
    /\ call = "signUp"
    /\ reply = Rejected(DuplicateAccount)
    /\ Len(getAccounts(World)) = 2

(***************************************************************************)
(* C2  Credential round-trip.  After a successful signUp(email, pw), at    *)
(* any later instant signIn(email, pw) succeeds and authenticates the      *)
(* account just created, and signIn(email, pw2) with a pw2 whose digest    *)
(* differs fails with InvalidCredential; signIn for an email that has no   *)
(* account fails with AccountNotFound.                                     *)
(***************************************************************************)
C2_CredentialRoundTrip ==
    Ready => \A email \in RawEmails, pw \in Passwords :
        LET up == signUp(World, now, email, pw)
        IN /\ up.reply = Ok =>
                \A pw2 \in Passwords :
                    LET in == signIn(up.world, email, pw2)
                    IN IF hashString(pw2) = hashString(pw)
                       THEN /\ in.reply = Ok
                            /\ in.world.user # None
                            /\ SameEmail(in.world.user[1].email, email)
                            /\ in.world.user[1].createdAt = now
                            /\ in.world.sessionItem = Some(in.world.user[1].email)
                       ELSE in.reply = Rejected(InvalidCredential)
           /\ AccountsOf(World, email) = {} =>
                signIn(World, email, pw).reply = Rejected(SignInAccountNotFound)

\* a signIn has just succeeded for an account and the user is that account
C2_Witness ==
    /\ call = "signIn"
    /\ reply = Ok
    /\ user # None
    /\ AccountsOf(World, user[1].email) # {}

(***************************************************************************)
(* C3  Case-insensitivity.  For signUp, signIn, requestPasswordReset and   *)
(* verifyPasswordReset, two calls made in the same state whose emails      *)
(* differ only in letter case settle the same way and leave the same store *)
(* and the same user; signUp with one casing followed by signIn with the   *)
(* other casing and the same password succeeds.                            *)
(***************************************************************************)
CaseVariants ==
    { pair \in RawEmails \X RawEmails : pair[1] # pair[2] /\ SameEmail(pair[1], pair[2]) }

C3_CaseInsensitive ==
    Ready => \A pair \in CaseVariants :
        /\ \A password \in Passwords :
              /\ signUp(World, now, pair[1], password) = signUp(World, now, pair[2], password)
              /\ signIn(World, pair[1], password) = signIn(World, pair[2], password)
              /\ signUp(World, now, pair[1], password).reply = Ok =>
                    signIn(signUp(World, now, pair[1], password).world, pair[2], password).reply = Ok
        /\ \A random \in RandomDraws :
              requestPasswordReset(World, now, pair[1], random)
                  = requestPasswordReset(World, now, pair[2], random)
        /\ \A otp \in Codes, newPassword \in Passwords :
              verifyPasswordReset(World, now, pair[1], otp, newPassword)
                  = verifyPasswordReset(World, now, pair[2], otp, newPassword)

\* the account was created under the lowercase email; a call made with the
\* upper-case one would succeed here: the user is signed out and a token is stored
C3_Witness ==
    /\ Ready
    /\ user = None
    /\ signIn(World, "USER@TEST.COM", "secret1").reply = Ok
    /\ \E otp \in Codes :
          verifyPasswordReset(World, now, "USER@TEST.COM", otp, "secret2").reply = Ok

(***************************************************************************)
(* C4  Failure frame.  When signUp, signIn, requestPasswordReset or        *)
(* verifyPasswordReset fails, the error state is the message of the        *)
(* failure thrown to the caller, and the user, the session pointer and the *)
(* accounts are as before the call; the reset tokens are as before too,    *)
(* except that ResetExpired removes one token: the expired token of the    *)
(* email of the call.                                                      *)
(***************************************************************************)
Failures ==
    { DuplicateAccount, SignInAccountNotFound, InvalidCredential, ResetAccountNotFound,
      ResetNotFound, ResetExpired, InvalidCode, VerifyAccountNotFound }

\* the calls of the four operations that can be made in the current state
FallibleCalls ==
    { [email |-> email, result |-> signUp(World, now, email, password)] :
          email \in RawEmails, password \in Passwords }
    \cup { [email |-> email, result |-> signIn(World, email, password)] :
          email \in RawEmails, password \in Passwords }
    \cup { [email |-> email, result |-> requestPasswordReset(World, now, email, random)] :
          email \in RawEmails, random \in RandomDraws }
    \cup { [email |-> tuple[1],
            result |-> verifyPasswordReset(World, now, tuple[1], tuple[2], tuple[3])] :
          tuple \in RawEmails \X Codes \X Passwords }

RemoveAt(items, k) == SubSeq(items, 1, k - 1) \o SubSeq(items, k + 1, Len(items))

C4_FailureFrame ==
    Ready => \A c \in FallibleCalls :
        c.result.reply.status = "rejected" =>
            /\ c.result.reply.value \in Failures
            /\ c.result.world.error = c.result.reply.value
            /\ c.result.world.user = user
            /\ c.result.world.sessionItem = sessionItem
            /\ c.result.world.accountsItem = accountsItem
            /\ IF c.result.reply.value = ResetExpired
               THEN \E k \in TokensOf(World, c.email) :
                       /\ getResetTokens(World)[k].expiresAt < now
                       /\ getResetTokens(c.result.world) = RemoveAt(getResetTokens(World), k)
               ELSE c.result.world.resetItem = resetItem

\* a verifyPasswordReset has just failed with ResetExpired while a user is
\* signed in and another email's token is still stored
C4_Witness ==
    /\ call = "verifyPasswordReset"
    /\ reply = Rejected(ResetExpired)
    /\ error = ResetExpired
    /\ user # None
    /\ getResetTokens(World) # <<>>

(***************************************************************************)
(* C5  Reset single-use.  After requestPasswordReset(email) returns the    *)
(* code C, a verifyPasswordReset(email, C, newPw) made before the expiry   *)
(* succeeds and consumes the token, and a second verifyPasswordReset with  *)
(* the same C made after it, with no request in between, fails with        *)
(* ResetNotFound.                                                          *)
(***************************************************************************)
C5_ResetSingleUse ==
    Ready => \A email \in RawEmails, random \in RandomDraws :
        LET request == requestPasswordReset(World, now, email, random)
            C == request.reply.value
        IN request.reply.status = "resolved" =>
              /\ C = generateOtp(random)
              /\ \A t1 \in From(now), newPw \in Passwords :
                    t1 <= now + ResetTtlMs =>
                        LET first == verifyPasswordReset(request.world, t1, email, C, newPw)
                        IN /\ first.reply = Ok
                           /\ TokensOf(first.world, email) = {}
                           /\ \A t2 \in From(t1), newPw2 \in Passwords :
                                 verifyPasswordReset(first.world, t2, email, C, newPw2).reply
                                     = Rejected(ResetNotFound)

\* a verifyPasswordReset has just succeeded after the clock has advanced, and
\* the token of the email is gone
C5_Witness ==
    /\ call = "verifyPasswordReset"
    /\ reply = Ok
    /\ now = ResetTtlMs
    /\ user # None
    /\ TokensOf(World, user[1].email) = {}

(***************************************************************************)
(* C6  Reset expiry.  A verifyPasswordReset for an email whose reset token *)
(* has its expiresAt in the past fails with ResetExpired, leaves the       *)
(* accounts (so the password hash) as they were and deletes the token; the *)
(* next verifyPasswordReset for the email, with no request in between,     *)
(* fails with ResetNotFound.                                               *)
(***************************************************************************)
C6_ResetExpiry ==
    Ready => \A email \in RawEmails, otp \in Codes, newPassword \in Passwords :
        (\E k \in TokensOf(World, email) : getResetTokens(World)[k].expiresAt < now) =>
            LET first == verifyPasswordReset(World, now, email, otp, newPassword)
            IN /\ first.reply = Rejected(ResetExpired)
               /\ first.world.accountsItem = accountsItem
               /\ TokensOf(first.world, email) = {}
               /\ \A t2 \in From(now), otp2 \in Codes, newPassword2 \in Passwords :
                     verifyPasswordReset(first.world, t2, email, otp2, newPassword2).reply
                         = Rejected(ResetNotFound)

\* a verifyPasswordReset has just failed with ResetExpired for an email that
\* has an account, and no token is left
C6_Witness ==
    /\ call = "verifyPasswordReset"
    /\ reply = Rejected(ResetExpired)
    /\ getAccounts(World) # <<>>
    /\ getResetTokens(World) = <<>>

(***************************************************************************)
(* C7  Wrong-code retry.  A verifyPasswordReset(email, wrongCode, newPw)   *)
(* made while the token of the email has not expired fails with            *)
(* InvalidCode and changes nothing but the error state, so the token is    *)
(* left in place and a following call with the correct code made before    *)
(* the expiry succeeds.                                                    *)
(***************************************************************************)
C7_WrongCodeRetry ==
    Ready => \A email \in RawEmails, wrongCode \in Codes, newPw \in Passwords :
        \A k \in TokensOf(World, email) :
            LET token == getResetTokens(World)[k]
                wrong == verifyPasswordReset(World, now, email, wrongCode, newPw)
            IN ~(token.expiresAt < now) /\ hashString(wrongCode) # token.otpHash =>
                  /\ wrong.reply = Rejected(InvalidCode)
                  /\ wrong.world = setError(World, InvalidCode)
                  /\ \A t2 \in From(now), code \in Codes, newPw2 \in Passwords :
                        t2 <= token.expiresAt /\ hashString(code) = token.otpHash =>
                            verifyPasswordReset(wrong.world, t2, email, code, newPw2).reply = Ok

\* a verifyPasswordReset has just failed with InvalidCode and the token is
\* still stored
C7_Witness ==
    /\ call = "verifyPasswordReset"
    /\ reply = Rejected(InvalidCode)
    /\ getResetTokens(World) # <<>>

(***************************************************************************)
(* C8  Password replacement.  After a successful                           *)
(* verifyPasswordReset(email, C, newPw) the stored hash of the account is  *)
(* the hash of newPw: signIn(email, newPw) succeeds and signIn with a      *)
(* password that hashes differently fails with InvalidCredential.  This    *)
(* lasts until another successful reset for the email: in every state what *)
(* signIn answers for an account is decided by the stored hash, and the    *)
(* stored hash of an account changes only in a step where a                *)
(* verifyPasswordReset for that account succeeds.                          *)
(***************************************************************************)
C8_AfterReset ==
    Ready => \A email \in RawEmails, C \in Codes, newPw \in Passwords :
        LET verify == verifyPasswordReset(World, now, email, C, newPw)
        IN verify.reply = Ok =>
              /\ AccountsOf(verify.world, email) # {}
              /\ \A i \in AccountsOf(verify.world, email) :
                    getAccounts(verify.world)[i].passwordHash = hashString(newPw)
              /\ \A pw \in Passwords :
                    signIn(verify.world, email, pw).reply
                        = IF hashString(pw) = hashString(newPw)
                          THEN Ok ELSE Rejected(InvalidCredential)

C8_SignInByStoredHash ==
    Ready => \A i \in DOMAIN getAccounts(World), pw \in Passwords :
        signIn(World, getAccounts(World)[i].email, pw).reply
            = IF hashString(pw) = getAccounts(World)[i].passwordHash
              THEN Ok ELSE Rejected(InvalidCredential)

C8_HashChangesOnlyByReset ==
    \A i \in DOMAIN getAccounts(World) :
        /\ i \in DOMAIN getAccounts(World)'
        /\ getAccounts(World)'[i].email = getAccounts(World)[i].email
        /\ getAccounts(World)'[i].passwordHash # getAccounts(World)[i].passwordHash =>
              /\ call' = "verifyPasswordReset"
              /\ reply' = Ok
              /\ user' = UserOf(getAccounts(World)[i])

C8_ResetReplacesPassword ==
    /\ [](C8_AfterReset /\ C8_SignInByStoredHash)
    /\ [][C8_HashChangesOnlyByReset]_vars

\* a verifyPasswordReset has just succeeded and the account's stored hash is
\* that of the password the account was not created with
C8_Witness ==
    /\ call = "verifyPasswordReset"
    /\ reply = Ok
    /\ user # None
    /\ \E i \in AccountsOf(World, user[1].email) :
          /\ getAccounts(World)[i].passwordHash = hashString("secret2")
          /\ signIn(World, user[1].email, "secret1").reply = Rejected(InvalidCredential)
    /\ Len(getAccounts(World)) = 1
    /\ error = Null

(***************************************************************************)
(* C9  One token per email.  In every reachable state the store holds at   *)
(* most one reset token per email, and a new requestPasswordReset for an   *)
(* email discards the earlier token: after two successive requests that    *)
(* returned C1 and then C2, C1 different from C2, a verifyPasswordReset    *)
(* made before the expiry fails with InvalidCode for C1 and succeeds for   *)
(* C2.                                                                     *)
(***************************************************************************)
C9_OneTokenPerEmail ==
    \A k, l \in DOMAIN getResetTokens(World) :
        SameEmail(getResetTokens(World)[k].email, getResetTokens(World)[l].email) => k = l

C9_NewRequestDiscardsPrior ==
    /\ C9_OneTokenPerEmail
    /\ Ready => \A email \in RawEmails, random1 \in RandomDraws, random2 \in RandomDraws :
          \A t2 \in From(now) :
              LET first == requestPasswordReset(World, now, email, random1)
                  second == requestPasswordReset(first.world, t2, email, random2)
                  C1 == first.reply.value
                  C2 == second.reply.value
              IN first.reply.status = "resolved" =>
                    /\ second.reply.status = "resolved"
                    /\ Cardinality(TokensOf(second.world, email)) = 1
                    /\ C1 # C2 =>
                          \A t3 \in From(t2), newPw \in Passwords :
                              t3 <= t2 + ResetTtlMs =>
                                  /\ verifyPasswordReset(second.world, t3, email, C1, newPw).reply
                                         = Rejected(InvalidCode)
                                  /\ verifyPasswordReset(second.world, t3, email, C2, newPw).reply
                                         = Ok

\* a requestPasswordReset has just succeeded at a later instant than the first
\* and both emails have a token
C9_Witness ==
    /\ call = "requestPasswordReset"
    /\ reply.status = "resolved"
    /\ now > 0
    /\ Len(getResetTokens(World)) = 2
    /\ \E k \in DOMAIN getResetTokens(World) : getResetTokens(World)[k].expiresAt = ResetTtlMs

(***************************************************************************)
(* C10  Self-heal.  If the session pointer names an email that has no      *)
(* account in the store, refreshSession() resolves to false, removes the   *)
(* session pointer and leaves the user null (isAuthenticated false),       *)
(* without changing the accounts or the reset tokens.  Checked where the   *)
(* environment can damage the stored accounts, the only way the pointer    *)
(* comes to dangle when calls do not overlap.                              *)
(***************************************************************************)
Dangling(w) ==
    /\ getSession(w) # None
    /\ AccountsOf(w, getSession(w)[1]) = {}

C10_SelfHeal ==
    Ready /\ Dangling(World) =>
        LET refresh == refreshSession(World)
        IN /\ refresh.reply = Resolved(JsFalse)
           /\ refresh.world.sessionItem = None
           /\ refresh.world.user = None
           /\ refresh.world.accountsItem = accountsItem
           /\ refresh.world.resetItem = resetItem

\* the session pointer dangles in a mounted provider, with a user still signed
\* in and a reset token stored: the state refreshSession heals
C10_Witness ==
    /\ Ready
    /\ Dangling(World)
    /\ accountsItem = Unparsable
    /\ user # None
    /\ getResetTokens(World) # <<>>
    /\ refreshSession(World).world.sessionItem = None

(***************************************************************************)
(* C11  Sign-out idempotence.  signOut() never fails, from any state; it   *)
(* leaves no session pointer and no user, and the accounts and reset       *)
(* tokens as they were.  A second signOut() right after it succeeds too    *)
(* and leaves the same state.                                              *)
(***************************************************************************)
C11_SignOutIdempotent ==
    Ready =>
        LET first == signOut(World)
            second == signOut(first.world)
        IN /\ first.reply = Ok
           /\ first.world.sessionItem = None
           /\ first.world.user = None
           /\ first.world.accountsItem = accountsItem
           /\ first.world.resetItem = resetItem
           /\ second.reply = Ok
           /\ second.world = first.world

\* signOut has just succeeded, while an account and a reset token are stored
C11_Witness ==
    /\ call = "signOut"
    /\ reply = Ok
    /\ user = None
    /\ sessionItem = None
    /\ error = Null
    /\ getAccounts(World) # <<>>
    /\ getResetTokens(World) # <<>>

(***************************************************************************)
(* C12  Session setters.  From any state, a successful signIn, signUp or   *)
(* verifyPasswordReset leaves the user set to the account of the call's    *)
(* lowercased email and the session pointer equal to that email.  No other *)
(* call, and no failed call, gives the pointer a new value: after          *)
(* requestPasswordReset or a failure it is as before, and after signOut,   *)
(* refreshSession, clearError or the startup resolution it is as before or *)
(* absent.                                                                 *)
(***************************************************************************)
Lowercased(email) == IF SameEmail(email, "user@test.com") THEN "user@test.com" ELSE email

C12_SessionSetters ==
    /\ initialiseSession(World).sessionItem \in {sessionItem, None}
    /\ Ready =>
          /\ \A c \in FallibleCalls :
                IF c.result.reply = Ok
                THEN /\ c.result.world.user # None
                     /\ c.result.world.user[1].email = Lowercased(c.email)
                     /\ c.result.world.sessionItem = Some(Lowercased(c.email))
                     /\ AccountsOf(c.result.world, c.email) # {}
                ELSE c.result.world.sessionItem = sessionItem
          /\ signOut(World).world.sessionItem = None
          /\ refreshSession(World).world.sessionItem \in {sessionItem, None}
          /\ clearError(World).sessionItem = sessionItem

\* a signIn has just succeeded for the second account: the user and the pointer
\* are that account's, whoever was signed in before
C12_Witness ==
    /\ call = "signIn"
    /\ reply = Ok
    /\ Len(getAccounts(World)) = 2
    /\ user # None
    /\ user[1].email = getAccounts(World)[1].email
    /\ sessionItem = Some(user[1].email)

(***************************************************************************)
(* C13  refreshSession.  refreshSession() never throws and leaves the      *)
(* error null; it resolves to true exactly when the session pointer is     *)
(* present and names an existing account, and then the user is that        *)
(* account's (email, createdAt) and the three stored items are unchanged.  *)
(* Checked where the stored accounts can be damaged, so that a pointer     *)
(* without an account occurs.                                              *)
(***************************************************************************)
PointerNamesAccount(w) ==
    /\ getSession(w) # None
    /\ AccountsOf(w, getSession(w)[1]) # {}

C13_RefreshSession ==
    Ready =>
        LET refresh == refreshSession(World)
        IN /\ refresh.reply.status = "resolved"
           /\ refresh.world.error = Null
           /\ refresh.reply.value = IF PointerNamesAccount(World) THEN JsTrue ELSE JsFalse
           /\ PointerNamesAccount(World) =>
                 /\ \E i \in AccountsOf(World, sessionItem[1]) :
                       refresh.world.user = Some([email |-> getAccounts(World)[i].email,
                                                  createdAt |-> getAccounts(World)[i].createdAt])
                 /\ refresh.world.accountsItem = accountsItem
                 /\ refresh.world.sessionItem = sessionItem
                 /\ refresh.world.resetItem = resetItem

\* refreshSession has just resolved to true and the user is the account the
\* pointer names
C13_Witness ==
    /\ call = "refreshSession"
    /\ reply = Resolved(JsTrue)
    /\ user # None
    /\ sessionItem = Some(user[1].email)

(***************************************************************************)
(* C14  Session persistence across a restart.  When the provider starts    *)
(* again with the user lost and the store kept, the startup resolution     *)
(* sets the user to account X if and only if the session pointer names X   *)
(* and X has an account.  So after a successful signIn, signUp or          *)
(* verifyPasswordReset a restart restores that user, and after signOut it  *)
(* restores none.                                                          *)
(***************************************************************************)
Restarted(w) == [w EXCEPT !.user = None, !.error = Null]

C14_RestartRestoresSession ==
    /\ LET started == initialiseSession(Restarted(World))
       IN IF PointerNamesAccount(World)
          THEN /\ \E i \in AccountsOf(World, sessionItem[1]) :
                     started.user = Some([email |-> getAccounts(World)[i].email,
                                          createdAt |-> getAccounts(World)[i].createdAt])
               /\ started.sessionItem = sessionItem
          ELSE started.user = None
    /\ Ready =>
          /\ \A c \in FallibleCalls :
                c.result.reply = Ok =>
                    /\ c.result.world.user # None
                    /\ initialiseSession(Restarted(c.result.world)).user = c.result.world.user
          /\ initialiseSession(Restarted(signOut(World).world)).user = None

\* the provider has started again and the startup resolution has restored the
\* user from the pointer
C14_Witness ==
    /\ Ready
    /\ call = "none"
    /\ user # None
    /\ sessionItem = Some(user[1].email)

(***************************************************************************)
(* C15  The loading flag.  loading is true at the start, the only step     *)
(* that makes it false is the startup resolution, and it is never true     *)
(* again: no call changes it.  The resolution does run, so loading becomes *)
(* false and stays false.                                                  *)
(***************************************************************************)
C15_LoadingOnlyAtStartup ==
    /\ loading = TRUE
    /\ [][IF loading = TRUE THEN loading' = TRUE \/ Mount ELSE loading' = FALSE]_vars
    /\ <>[](loading = FALSE)

\* a call has completed with loading false
C15_Witness ==
    /\ loading = FALSE
    /\ call = "verifyPasswordReset"
    /\ reply = Ok

(***************************************************************************)
(* C16  Frame of requestPasswordReset.  Whether it succeeds or fails,      *)
(* requestPasswordReset(email) leaves the user, the session pointer and    *)
(* the accounts unchanged.  On success the reset tokens are the tokens of  *)
(* the other emails, unchanged and in their order, followed by the new     *)
(* token of the email; on failure the reset tokens are unchanged.          *)
(***************************************************************************)
OtherTokens(w, email) ==
    SelectSeq(getResetTokens(w), LAMBDA token : ~SameEmail(token.email, email))

C16_RequestFrame ==
    Ready => \A email \in RawEmails, random \in RandomDraws :
        LET request == requestPasswordReset(World, now, email, random)
            tokens == getResetTokens(request.world)
        IN /\ request.world.user = user
           /\ request.world.sessionItem = sessionItem
           /\ request.world.accountsItem = accountsItem
           /\ IF request.reply.status = "resolved"
              THEN /\ tokens # <<>>
                   /\ SubSeq(tokens, 1, Len(tokens) - 1) = OtherTokens(World, email)
                   /\ tokens[Len(tokens)] = [email |-> Lowercased(email),
                                             otpHash |-> hashString(request.reply.value),
                                             expiresAt |-> now + ResetTtlMs]
              ELSE request.world.resetItem = resetItem

\* a requestPasswordReset has just succeeded for the email of the second token
\* while the user signed in is the other email's
C16_Witness ==
    /\ call = "requestPasswordReset"
    /\ reply.status = "resolved"
    /\ Len(getResetTokens(World)) = 2
    /\ getResetTokens(World)[2].otpHash = hashString(reply.value)
    /\ user # None
    /\ user[1].email = getResetTokens(World)[1].email

(***************************************************************************)
(* C17  Frame of a successful verifyPasswordReset.  In the accounts it     *)
(* changes only the password hash of the email's account: that account's   *)
(* email and createdAt, every other account and the order of the accounts  *)
(* are unchanged.  In the reset tokens it removes only the email's token:  *)
(* the tokens of the other emails are unchanged and in their order.        *)
(***************************************************************************)
C17_VerifyFrame ==
    Ready => \A email \in RawEmails, otp \in Codes, newPassword \in Passwords :
        LET verify == verifyPasswordReset(World, now, email, otp, newPassword)
            before == getAccounts(World)
            after == getAccounts(verify.world)
        IN verify.reply = Ok =>
              /\ Len(after) = Len(before)
              /\ \A i \in DOMAIN before :
                    IF SameEmail(before[i].email, email)
                    THEN /\ after[i].email = before[i].email
                         /\ after[i].createdAt = before[i].createdAt
                    ELSE after[i] = before[i]
              /\ getResetTokens(verify.world) = OtherTokens(World, email)
              /\ Len(getResetTokens(verify.world)) = Len(getResetTokens(World)) - 1

\* a verifyPasswordReset has just succeeded while a second account, with another
\* password hash, and its reset token are stored
C17_Witness ==
    /\ call = "verifyPasswordReset"
    /\ reply = Ok
    /\ Len(getAccounts(World)) = 2
    /\ getAccounts(World)[1].passwordHash # getAccounts(World)[2].passwordHash
    /\ Len(getResetTokens(World)) = 1
    /\ user # None
    /\ getResetTokens(World)[1].email # user[1].email

(***************************************************************************)
(* C18  The one-time code.  For every value of the random source the code  *)
(* is the decimal rendering, six digits long, of a number from 100000 to   *)
(* 999999.  requestPasswordReset returns such a code and stores its hash,  *)
(* which is not the code, in the token; no field of the token is the code. *)
(***************************************************************************)
Decimal6(n) ==
    DigitChar[((n \div 100000) % 10) + 1] \o DigitChar[((n \div 10000) % 10) + 1]
        \o DigitChar[((n \div 1000) % 10) + 1] \o DigitChar[((n \div 100) % 10) + 1]
        \o DigitChar[((n \div 10) % 10) + 1] \o DigitChar[(n % 10) + 1]

C18_EveryDraw ==
    \A k \in 0 .. (RandomScale - 1) :
        /\ otpNumber(k) \in 100000 .. 999999
        /\ Len(generateOtp(k)) = 6
        /\ generateOtp(k) = Decimal6(otpNumber(k))

C18_SixDigitCode ==
    /\ C18_EveryDraw
    /\ Ready => \A email \in RawEmails, random \in RandomDraws :
          LET request == requestPasswordReset(World, now, email, random)
              code == request.reply.value
              tokens == getResetTokens(request.world)
          IN request.reply.status = "resolved" =>
                /\ Len(code) = 6
                /\ \E n \in { otpNumber(k) : k \in RandomDraws } :
                      n \in 100000 .. 999999 /\ code = Decimal6(n)
                /\ tokens[Len(tokens)].otpHash = hashString(code)
                /\ tokens[Len(tokens)].otpHash # code
                /\ tokens[Len(tokens)].email # code

\* a requestPasswordReset has just returned the largest code of the model and
\* the token holds its hash
C18_Witness ==
    /\ call = "requestPasswordReset"
    /\ reply.status = "resolved"
    /\ reply.value = generateOtp(RandomScale - 1)
    /\ Len(reply.value) = 6
    /\ \E k \in DOMAIN getResetTokens(World) :
          getResetTokens(World)[k].otpHash = hashString(reply.value)

(***************************************************************************)
(* C19  The expiry instant.  The expiresAt of a reset token is the time of *)
(* the request plus 10 minutes, and the token is expired only at times     *)
(* strictly later: a verifyPasswordReset with the correct code made at any *)
(* time from the request up to and including expiresAt succeeds, and one   *)
(* made later fails with ResetExpired.                                     *)
(***************************************************************************)
TenMinutes == 10 * 60 * 1000

C19_ExpiryBoundary ==
    Ready => \A email \in RawEmails, random \in RandomDraws :
        LET request == requestPasswordReset(World, now, email, random)
            code == request.reply.value
        IN request.reply.status = "resolved" =>
              /\ \A k \in TokensOf(request.world, email) :
                    getResetTokens(request.world)[k].expiresAt = now + TenMinutes
              /\ \A t \in From(now), newPassword \in Passwords :
                    verifyPasswordReset(request.world, t, email, code, newPassword).reply
                        = IF t <= now + TenMinutes THEN Ok ELSE Rejected(ResetExpired)

\* a verifyPasswordReset has just failed with ResetExpired one millisecond after
\* the expiry of a token requested at time 0
C19_Witness ==
    /\ call = "verifyPasswordReset"
    /\ reply = Rejected(ResetExpired)
    /\ now = TenMinutes + 1

(***************************************************************************)
(* C20  Storage corruption is never propagated.  When the stored accounts  *)
(* or reset tokens are missing or corrupt (text that does not parse, a     *)
(* value that is not a sequence, a sequence with malformed entries), the   *)
(* read returns the empty collection, and neither the startup resolution   *)
(* nor any call fails because of it: with such accounts signIn fails with  *)
(* AccountNotFound, signUp succeeds and a remembered session resolves to   *)
(* no user.                                                                *)
(***************************************************************************)
Corrupt(item) ==
    \/ item.kind # "json"
    \/ \E i \in DOMAIN item.value : item.value[i] = NullEntry

C20_CorruptionNotPropagated ==
    /\ Corrupt(accountsItem) => getAccounts(World) = <<>>
    /\ Corrupt(resetItem) => getResetTokens(World) = <<>>
    /\ call = "initialiseSession" => reply.status = "resolved"
    /\ Ready =>
          /\ \A c \in FallibleCalls : c.result.reply # Rejected(TypeErrorMessage)
          /\ refreshSession(World).reply.status = "resolved"
          /\ Corrupt(accountsItem) =>
                /\ \A email \in RawEmails, password \in Passwords :
                      /\ signIn(World, email, password).reply = Rejected(SignInAccountNotFound)
                      /\ signUp(World, now, email, password).reply = Ok
                /\ refreshSession(World).reply = Resolved(JsFalse)
                /\ refreshSession(World).world.user = None

(***************************************************************************)
(* Vocabulary of the properties of overlapping calls.                      *)
(***************************************************************************)
\* The provider has mounted and no call is suspended.
Quiet == Ready /\ inFlight = <<>>

\* A call that has started runs on to its end with nothing in between.
RunsOn(r) ==
    IF r.reply # Pending THEN r
    ELSE LET r2 == Resume(r.world, now, r.frame)
         IN IF r2.reply # Pending THEN r2 ELSE Resume(r2.world, now, r2.frame)

\* The calls that can be made in the current state, each run to its end alone.
AloneCalls ==
    { RunsOn(signUp_Start(World, email, password)) :
          email \in RawEmails, password \in Passwords }
    \cup { RunsOn(signIn_Start(World, email, password)) :
          email \in RawEmails, password \in Passwords }
    \cup { RunsOn(requestPasswordReset_Start(World, email, random)) :
          email \in RawEmails, random \in RandomDraws }
    \cup { RunsOn(verifyPasswordReset_Start(World, now, tuple[1], tuple[2], tuple[3])) :
          tuple \in RawEmails \X Codes \X Passwords }
    \cup { signOut(World), refreshSession(World) }

\* This step is a suspended call running on.
RunsOnStep == \E i \in DOMAIN inFlight : Continues(i)

(***************************************************************************)
(* C21  lastError.  When no call is suspended, every call that runs to its *)
(* end alone and succeeds leaves the error absent, whatever it was before  *)
(* the call.                                                               *)
(* As claimed: and the error is present only if the call that settled most *)
(* recently failed (and clearError has not been called since).             *)
(* As it holds: and the error is present only if a call has failed and no  *)
(* call has been made and clearError has not been called since that        *)
(* failure.  That is: the error becomes present, or changes, only in a     *)
(* step in which a call fails, and is then that failure's message; and     *)
(* every step that makes a call or calls clearError leaves it absent       *)
(* unless the call fails in that step.                                     *)
(***************************************************************************)
C21_ClearedBySuccess ==
    Quiet => \A r \in AloneCalls : r.reply.status = "resolved" => r.world.error = Null

C21_PresentOnlyAfterLastFailure ==
    /\ C21_ClearedBySuccess
    /\ error # Null => reply = Rejected(error)

C21_LastError ==
    /\ [](C21_ClearedBySuccess)
    /\ [][ /\ error' # Null /\ error' # error => reply' = Rejected(error')
           /\ ~RunsOnStep => error' = Null \/ reply' = Rejected(error') ]_vars

\* a call has failed and left its message, no call is suspended, and a call
\* made now would succeed
C21_Witness ==
    /\ Quiet
    /\ error # Null
    /\ reply = Rejected(error)
    /\ \E r \in AloneCalls : r.reply.status = "resolved"

(***************************************************************************)
(* C22  Accounts are never deleted.  Every account in the store (each was  *)
(* created by a successful signUp) is in the store after every step, with  *)
(* the same email and createdAt, also when calls overlap at their awaits:  *)
(* two signUps in flight together, or a signUp in flight during a          *)
(* verifyPasswordReset.                                                    *)
(***************************************************************************)
C22_AccountsNeverDeleted ==
    [][ \A i \in DOMAIN getAccounts(World) :
           \E j \in DOMAIN getAccounts(World)' :
              /\ getAccounts(World)'[j].email = getAccounts(World)[i].email
              /\ getAccounts(World)'[j].createdAt = getAccounts(World)[i].createdAt ]_vars

(***************************************************************************)
(* C23  The session pointer names an account.  In every state in which the *)
(* startup resolution has completed and no call is in flight, a present    *)
(* session pointer is the email of an account in the store and the user is *)
(* that account's projection; calls that overlap at their awaits included, *)
(* the store being written by the provider alone.                          *)
(***************************************************************************)
C23_PointerNamesAccount ==
    Quiet /\ sessionItem # None =>
        \E i \in DOMAIN getAccounts(World) :
           /\ getAccounts(World)[i].email = sessionItem[1]
           /\ user = UserOf(getAccounts(World)[i])

(***************************************************************************)
(* C24  Overlapping reset requests are last-write-wins.  When a            *)
(* requestPasswordReset is in flight and a second one for the same email   *)
(* is made before it completes, then in whichever order the two run on,    *)
(* both return their code and after both exactly one reset token of that   *)
(* email is in the store, it is the token of the call that ran on last,    *)
(* verifyPasswordReset accepts the code that call returned and no other,   *)
(* and the tokens of the other emails are as they were.  The account the   *)
(* requests were made for is in the store.                                 *)
(***************************************************************************)
C24_LastWriteWins ==
    Ready => \A i \in DOMAIN inFlight, email \in RawEmails, random \in RandomDraws :
        LET first == inFlight[i]
            second == requestPasswordReset_Start(World, email, random)
        IN /\ first.op = "requestPasswordReset"
           /\ first.normalizedEmail = toLowerCase(email)
           /\ AccountsOf(World, email) # {}
           => /\ second.reply = Pending
              /\ \A order \in { <<first, second.frame>>, <<second.frame, first>> } :
                    LET r1 == Resume(second.world, now, order[1])
                        r2 == Resume(r1.world, now, order[2])
                        tokens == getResetTokens(r2.world)
                    IN /\ r1.reply = Resolved(order[1].otp)
                       /\ r2.reply = Resolved(order[2].otp)
                       /\ Cardinality(TokensOf(r2.world, email)) = 1
                       /\ \A k \in TokensOf(r2.world, email) :
                             tokens[k].otpHash = hashString(r2.reply.value)
                       /\ \A otp \in Codes, newPassword \in Passwords :
                             RunsOn(verifyPasswordReset_Start(r2.world, now, email, otp,
                                                              newPassword)).reply
                                 = IF otp = r2.reply.value THEN Ok ELSE Rejected(InvalidCode)
                       /\ OtherTokens(r2.world, email) = OtherTokens(World, email)

\* a requestPasswordReset is in flight; the account of its email and a token
\* of another email are in the store
C24_Witness ==
    /\ Ready
    /\ \E i \in DOMAIN inFlight :
          /\ inFlight[i].op = "requestPasswordReset"
          /\ AccountsOf(World, inFlight[i].normalizedEmail) # {}
          /\ OtherTokens(World, inFlight[i].normalizedEmail) # <<>>

(***************************************************************************)
(* C25  The order of the failures of verifyPasswordReset: no token, then   *)
(* expired, then wrong code, then missing account.  With no token of the   *)
(* email it fails with ResetNotFound, also when the email has no account.  *)
(* With an expired token it fails with ResetExpired and removes the token, *)
(* also when the code is wrong.  With a live token and a wrong code it     *)
(* fails with InvalidCode, also when the email has no account.  With a     *)
(* live token, the right code and no account it fails with AccountNotFound *)
(* and the reset token is left in the store.  Checked where the            *)
(* environment can damage the stored accounts, so that a token without an  *)
(* account occurs.                                                         *)
(***************************************************************************)
C25_FailureOrder ==
    Ready => \A email \in RawEmails, otp \in Codes, newPassword \in Passwords :
        LET verify == verifyPasswordReset(World, now, email, otp, newPassword)
            tokens == getResetTokens(World)
            noAccount == AccountsOf(World, email) = {}
        IN /\ TokensOf(World, email) = {} => verify.reply = Rejected(ResetNotFound)
           /\ \A k \in TokensOf(World, email) :
                 IF tokens[k].expiresAt < now
                 THEN /\ verify.reply = Rejected(ResetExpired)
                      /\ TokensOf(verify.world, email) = {}
                 ELSE IF tokens[k].otpHash # hashString(otp)
                 THEN verify.reply = Rejected(InvalidCode)
                 ELSE IF noAccount
                 THEN /\ verify.reply = Rejected(VerifyAccountNotFound)
                      /\ verify.world.resetItem = resetItem
                 ELSE verify.reply = Ok

\* a verifyPasswordReset has just failed with AccountNotFound: the stored
\* accounts are damaged and the token of the email is still in the store;
\* from here a call without a token and without an account fails with
\* ResetNotFound
C25_Witness ==
    /\ call = "verifyPasswordReset"
    /\ reply = Rejected(VerifyAccountNotFound)
    /\ accountsItem = Unparsable
    /\ Len(getResetTokens(World)) = 1
    /\ \E email \in RawEmails : TokensOf(World, email) = {}

(***************************************************************************)
(* C26  The user and the session pointer agree.  In every state after the  *)
(* startup resolution has completed, the user is present if and only if    *)
(* the session pointer is, and then user.email is the pointer: a handler   *)
(* that sets one sets the other before its next await, so this holds in    *)
(* the states between the steps of overlapping calls as well.              *)
(***************************************************************************)
C26_UserIffPointer ==
    Ready => /\ user # None <=> sessionItem # None
             /\ user # None => user[1].email = sessionItem[1]

\* a call has signed a user in while another call is suspended at its await
C26_Witness ==
    /\ Ready
    /\ inFlight # <<>>
    /\ reply = Ok
    /\ call \in { "signIn", "signUp", "verifyPasswordReset" }
    /\ user # None
    /\ sessionItem = Some(user[1].email)

(***************************************************************************)
(* C27  signOut is not undone by a call in flight.  When signOut runs, the *)
(* user and the session pointer are absent after it, a refreshSession      *)
(* leaves them absent, and every signIn, signUp or verifyPasswordReset     *)
(* that was suspended at an await when signOut ran leaves them absent when *)
(* it runs on: only a call made after the signOut signs a user in.         *)
(***************************************************************************)
C27_SignOutStays ==
    Ready =>
        LET out == signOut(World).world
        IN /\ out.user = None
           /\ out.sessionItem = None
           /\ refreshSession(out).world.user = None
           /\ refreshSession(out).world.sessionItem = None
           /\ \A i \in DOMAIN inFlight :
                 LET after == RunsOn(Await(out, inFlight[i])).world
                 IN /\ after.user = None
                    /\ after.sessionItem = None

(***************************************************************************)
(* C28  A one-time code is single-use under overlap.  When two             *)
(* verifyPasswordReset calls that found the same reset token are both in   *)
(* flight (both made before either completes, with the same or different   *)
(* new passwords) and run on one after the other, at most one of them      *)
(* succeeds.                                                               *)
(***************************************************************************)
C28_SingleUseUnderOverlap ==
    Ready => \A i \in DOMAIN inFlight, j \in DOMAIN inFlight :
        /\ i # j
        /\ inFlight[i].op = "verifyPasswordReset" /\ inFlight[i].awaits = "otpHash"
        /\ inFlight[j].op = "verifyPasswordReset" /\ inFlight[j].awaits = "otpHash"
        /\ inFlight[i].token = inFlight[j].token
        => LET r1 == RunsOn(Await(World, inFlight[i]))
               r2 == RunsOn(Await(r1.world, inFlight[j]))
           IN ~(r1.reply = Ok /\ r2.reply = Ok)

(***************************************************************************)
(* C29  A superseded code is never accepted.  When a verifyPasswordReset   *)
(* with code C1 is in flight (it has read the reset tokens) and a          *)
(* requestPasswordReset for the same email completes and returns a code C2 *)
(* different from C1, the verifyPasswordReset does not succeed when it     *)
(* runs on, and the token of C2 is in the store after it.                  *)
(***************************************************************************)
C29_SupersededCodeRejected ==
    Ready => \A i \in DOMAIN inFlight, email \in RawEmails, random \in RandomDraws :
        LET verify == inFlight[i]
            request == RunsOn(requestPasswordReset_Start(World, email, random))
        IN /\ verify.op = "verifyPasswordReset" /\ verify.awaits = "otpHash"
           /\ verify.normalizedEmail = toLowerCase(email)
           /\ request.reply.status = "resolved"
           /\ request.reply.value # verify.otp
           => LET after == RunsOn(Await(request.world, verify))
              IN /\ after.reply # Ok
                 /\ \E k \in TokensOf(after.world, email) :
                       getResetTokens(after.world)[k].otpHash = hashString(request.reply.value)

(***************************************************************************)
(* C30  A completed password reset is not undone.  When a                  *)
(* verifyPasswordReset of account x has just succeeded while a signUp of   *)
(* another email was in flight (it read the accounts, x among them, before *)
(* the reset wrote them), and that signUp then runs on and writes the      *)
(* accounts, the account of x is in the store as the reset left it: its    *)
(* password hash is the one the reset stored, and signIn(x, password)      *)
(* succeeds for the password of that hash only.                            *)
(***************************************************************************)
C30_ResetNotUndone ==
    Ready /\ call = "verifyPasswordReset" /\ reply = Ok /\ user # None =>
        \A i \in DOMAIN inFlight :
            /\ inFlight[i].op = "signUp"
            /\ inFlight[i].normalizedEmail # user[1].email
            /\ EmailTaken(inFlight[i].accounts, user[1].email)
            =>
                LET after == RunsOn(Await(World, inFlight[i])).world
                IN \A k \in AccountsOf(World, user[1].email) :
                      /\ \E m \in DOMAIN getAccounts(after) :
                            getAccounts(after)[m] = getAccounts(World)[k]
                      /\ \A password \in Passwords :
                            signIn(after, user[1].email, password).reply = Ok
                                <=> getAccounts(World)[k].passwordHash = hashString(password)

====
